---- MODULE Spec2Model ----
(***************************************************************************)
(* Model of src/server.js: the Express handlers POST /api/create-order and *)
(* POST /api/verify-payment of the YeetFit backend.                        *)
(*                                                                         *)
(* Text is a sequence of one-character strings, so that slice, the regular *)
(* expressions, concatenation and === are computed as JavaScript computes  *)
(* them.  A JSON value of a request body is a record                       *)
(*    [t : type tag, n : Int, s : text, a : sequence of text]              *)
(* whose unused fields are 0 / << >>.                                      *)
(***************************************************************************)
EXTENDS Integers, Sequences, FiniteSets, TLC

\* Number of request slots the concurrent specification serves.
MaxReq == 3
\* Length of the long userId the inputs contain (longer than the 20 kept).
LongLen == 25

---------------------------------------------------------------------------
(* Characters and text *)

Digits == <<"0","1","2","3","4","5","6","7","8","9">>
HexDigits == Digits \o <<"a","b","c","d","e","f">>
Lower ==
  <<"a","b","c","d","e","f","g","h","i","j","k","l","m",
    "n","o","p","q","r","s","t","u","v","w","x","y","z">>
Upper ==
  <<"A","B","C","D","E","F","G","H","I","J","K","L","M",
    "N","O","P","Q","R","S","T","U","V","W","X","Y","Z">>
Punct == <<"_","-",".","@","|",","," ","[","]">>
Alphabet == Digits \o Lower \o Upper \o Punct

Range(f) == {f[i] : i \in DOMAIN f}

\* String.prototype.slice(0, k) / Array.prototype.slice(0, k)
Take(s, k) == SubSeq(s, 1, IF Len(s) < k THEN Len(s) ELSE k)

\* whether text n occurs in text h
Contains(h, n) ==
  \E i \in 0..(Len(h) - Len(n)) : SubSeq(h, i + 1, i + Len(n)) = n

\* a string literal of the program that is never taken apart: one token
Lit(str) == <<str>>

---------------------------------------------------------------------------
(* JSON values of a request body, as express.json() delivers them *)

Undef == [t |-> "undefined", n |-> 0, s |-> << >>, a |-> << >>]
Null == [t |-> "null", n |-> 0, s |-> << >>, a |-> << >>]
Bool(b) == [t |-> "boolean", n |-> IF b THEN 1 ELSE 0, s |-> << >>, a |-> << >>]
\* an integral number
Num(k) == [t |-> "number", n |-> k, s |-> << >>, a |-> << >>]
\* the non-integral number k + 0.5
Frac(k) == [t |-> "fraction", n |-> k, s |-> << >>, a |-> << >>]
Str(x) == [t |-> "string", n |-> 0, s |-> x, a |-> << >>]
\* an array of strings
Arr(xs) == [t |-> "array", n |-> 0, s |-> << >>, a |-> xs]
\* the plain object {}
Obj == [t |-> "object", n |-> 0, s |-> << >>, a |-> << >>]
\* the object {"toString": 1}: its own toString is not callable and the
\* inherited valueOf returns the object, so every conversion to a primitive
\* throws a TypeError
ObjNoPrim == [t |-> "objectNoPrimitive", n |-> 0, s |-> << >>, a |-> << >>]

\* JavaScript truthiness: what !x tests
Truthy(v) ==
  CASE v.t \in {"undefined", "null"} -> FALSE
    [] v.t = "boolean" -> v.n = 1
    [] v.t = "number" -> v.n # 0
    [] v.t = "string" -> Len(v.s) > 0
    [] OTHER -> TRUE

\* destructuring default: `x = ''` replaces undefined only
Default(v, d) == IF v.t = "undefined" THEN d ELSE v

RECURSIVE DigitsOf(_)
\* decimal digits of a natural number
DigitsOf(k) ==
  IF k < 10 THEN <<Digits[k + 1]>>
  ELSE DigitsOf(k \div 10) \o <<Digits[(k % 10) + 1]>>

RECURSIVE Join(_)
\* Array.prototype.join(",") of an array of strings
Join(xs) ==
  IF Len(xs) = 0 THEN << >>
  ELSE IF Len(xs) = 1 THEN xs[1]
  ELSE xs[1] \o <<",">> \o Join(Tail(xs))

\* whether ToString(v) of JavaScript throws a TypeError
ToStringThrows(v) == v.t = "objectNoPrimitive"

\* ToString(v) of JavaScript, for the values on which it does not throw
JsToString(v) ==
  CASE v.t = "string" -> v.s
    [] v.t = "number" ->
         IF v.n < 0 THEN <<"-">> \o DigitsOf(0 - v.n) ELSE DigitsOf(v.n)
    [] v.t = "fraction" -> DigitsOf(v.n) \o <<".","5">>
    [] v.t = "boolean" ->
         IF v.n = 1 THEN <<"t","r","u","e">> ELSE <<"f","a","l","s","e">>
    [] v.t = "null" -> <<"n","u","l","l">>
    [] v.t = "undefined" -> <<"u","n","d","e","f","i","n","e","d">>
    [] v.t = "array" -> Join(v.a)
    [] OTHER ->
         <<"[","o","b","j","e","c","t"," ","O","b","j","e","c","t","]">>

---------------------------------------------------------------------------
(* The checks of create-order *)

\* Number.isInteger(amount)
IsInteger(v) == v.t = "number"

\* amount < 100, evaluated on integral numbers only
LessThanMin(v) == v.n < 100

\* ['INR'].includes(currency): SameValueZero, no coercion
CurrencyAllowed(v) == v.t = "string" /\ v.s = <<"I","N","R">>

\* \d
IsDigit(c) == c \in Range(Digits)

\* \w
IsWord(c) == c \in Range(Digits) \cup Range(Lower) \cup Range(Upper) \cup {"_"}

\* /^\d{10}$/ on a string
ContactRe(x) == Len(x) = 10 /\ \A i \in 1..Len(x) : IsDigit(x[i])

\* ([\w-]+\.)+ on a string: one or more labels, each followed by a dot
DomainLabels(x) ==
  /\ Len(x) >= 2
  /\ x[Len(x)] = "."
  /\ x[1] # "."
  /\ \A i \in 1..Len(x) : IsWord(x[i]) \/ x[i] \in {"-", "."}
  /\ \A i \in 1..(Len(x) - 1) : ~(x[i] = "." /\ x[i + 1] = ".")

\* /^[\w-\.]+@([\w-]+\.)+[\w-]{2,4}$/ on a string
EmailRe(x) ==
  \E at \in 1..Len(x) :
    /\ x[at] = "@"
    /\ at > 1
    /\ \A i \in 1..(at - 1) : IsWord(x[i]) \/ x[i] \in {"-", "."}
    /\ \E k \in 2..4 :
         /\ Len(x) - at - k >= 2
         /\ DomainLabels(SubSeq(x, at + 1, Len(x) - k))
         /\ \A i \in (Len(x) - k + 1)..Len(x) : IsWord(x[i]) \/ x[i] = "-"

\* whether userId.slice(0, 20) throws: only strings and arrays have slice
SliceThrows(v) == v.t \notin {"string", "array"}

\* `${userId.slice(0, 20)}`
SliceText(v) ==
  IF v.t = "string" THEN Take(v.s, 20) ELSE Join(Take(v.a, 20))

\* Date.now() is sec * 1000 + ms; `${Date.now()}` is its decimal digits
NowText(now) ==
  DigitsOf(now.sec) \o
    (IF now.ms < 10 THEN <<"0","0">> ELSE IF now.ms < 100 THEN <<"0">> ELSE << >>) \o
    DigitsOf(now.ms)

\* `rcpt_${userId.slice(0, 20)}_${Date.now()}`.slice(0, 40)
Receipt(userId, now) ==
  Take(<<"r","c","p","t","_">> \o SliceText(userId) \o <<"_">> \o NowText(now), 40)

---------------------------------------------------------------------------
(* The digest of verify-payment *)

CharCode(c) == CHOOSE i \in 1..Len(Alphabet) : Alphabet[i] = c

RECURSIVE Absorb(_, _)
\* the state of the hash after absorbing text x
Absorb(h, x) ==
  IF Len(x) = 0 THEN h
  ELSE Absorb((h * 31 + CharCode(Head(x))) % 65536, Tail(x))

\* digest('hex'): four lowercase hexadecimal digits of a 16-bit value
Hex(h) ==
  << HexDigits[(h \div 4096) + 1], HexDigits[((h \div 256) % 16) + 1],
     HexDigits[((h \div 16) % 16) + 1], HexDigits[(h % 16) + 1] >>

\* crypto.createHmac('sha256', key).update(msg).digest('hex'): a keyed
\* digest of key and message (inner and outer pass), 16 bits wide here
HmacHex(key, msg) ==
  Hex(Absorb(Absorb(92, key), Hex(Absorb(Absorb(54, key), msg))))

\* razorpay_order_id + '|' + razorpay_payment_id
ConcatThrows(oid, pid) == ToStringThrows(oid) \/ ToStringThrows(pid)

SignedBody(oid, pid) == JsToString(oid) \o <<"|">> \o JsToString(pid)

---------------------------------------------------------------------------
(* State *)

VARIABLES
  env,        \* process.env: RAZORPAY_KEY_ID, RAZORPAY_KEY_SECRET (<< >>: unset)
  reqs,       \* per request: route, position, body, processor calls, responses
  responded   \* the requests in the order their responses were sent

vars == <<env, reqs, responded>>

Requests == 1..MaxReq

NoError ==
  [code |-> << >>, description |-> << >>, source |-> << >>, step |-> << >>,
   reason |-> << >>]

\* a response: res.status(status).json(body); keys are the fields of the body
Response(status, keys, error, details, razorpayError, orderId, st) ==
  [status |-> status, keys |-> keys, error |-> error, details |-> details,
   razorpayError |-> razorpayError, orderId |-> orderId, st |-> st]

\* res.status(code).json({ error: msg })
ErrorResponse(code, msg) ==
  Response(code, {"error"}, Lit(msg), << >>, NoError, << >>, << >>)

NoTime == [sec |-> 0, ms |-> 0]

NoOutcome == [kind |-> "none", id |-> << >>, message |-> << >>, hasError |-> FALSE,
              error |-> NoError]

Idle ==
  [route |-> "none", pc |-> "idle", body |-> [none |-> Undef], now |-> NoTime,
   calls |-> << >>, outcome |-> NoOutcome, resp |-> << >>, arrivedAfter |-> 0]

\* an exception thrown by the handler's own code
TypeError(msg) ==
  [kind |-> "err", id |-> << >>, message |-> Lit(msg), hasError |-> FALSE,
   error |-> NoError]

---------------------------------------------------------------------------
(* POST /api/create-order *)

\* Options with the amount converted as if it had been sent in rupees
OptionsInRupees(body, now) ==
  [amount |-> Num(body.amount.n * 100),
   currency |-> body.currency,
   receipt |-> Receipt(body.userId, now),
   payment_capture |-> 1,
   notes |-> [userId |-> body.userId, name |-> body.name,
              email |-> Default(body.email, Str(<< >>)),
              contact |-> Default(body.contact, Str(<< >>))]]

\* the options passed to razorpay.orders.create
Options(body, now) ==
  [amount |-> body.amount,
   currency |-> body.currency,
   receipt |-> Receipt(body.userId, now),
   payment_capture |-> 1,
   notes |-> [userId |-> body.userId, name |-> body.name,
              email |-> Default(body.email, Str(<< >>)),
              contact |-> Default(body.contact, Str(<< >>))]]

\* res.json({ orderId: order.id })
OrderCreatedResponse(order) ==
  Response(200, {"orderId"}, << >>, << >>, NoError, order.id, << >>)

\* the catch block: 500 with the message and the processor's error object
CreateOrderCatch(err) ==
  Response(500,
           IF err.hasError THEN {"error", "details", "razorpayError"}
                           ELSE {"error", "details"},
           Lit("Failed to create order"),
           IF Len(err.message) > 0 THEN err.message ELSE Lit("Error creating order"),
           err.error, << >>, << >>)

\* the handler up to the await: either a response or the processor call
CreateOrderSync(body, e, now) ==
  LET email == Default(body.email, Str(<< >>))
      contact == Default(body.contact, Str(<< >>))
      respond(r) == [kind |-> "respond", resp |-> r, options |-> << >>]
      thrown(msg) == respond(CreateOrderCatch(TypeError(msg)))
  IN
  IF ~Truthy(body.amount) \/ ~Truthy(body.currency) \/ ~Truthy(body.userId)
       \/ ~Truthy(body.name)
  THEN respond(ErrorResponse(400, "Missing required fields: amount, currency, userId, name"))
  ELSE IF ~IsInteger(body.amount) \/ LessThanMin(body.amount)
  THEN respond(ErrorResponse(400, "Amount must be an integer >= 100"))
  ELSE IF ~CurrencyAllowed(body.currency)
  THEN respond(ErrorResponse(400, "Currency must be INR"))
  ELSE IF Truthy(contact) /\ ToStringThrows(contact)
  THEN thrown("Cannot convert object to primitive value")
  ELSE IF Truthy(contact) /\ ~ContactRe(JsToString(contact))
  THEN respond(ErrorResponse(400, "Contact must be a valid 10-digit phone number"))
  ELSE IF Truthy(email) /\ ToStringThrows(email)
  THEN thrown("Cannot convert object to primitive value")
  ELSE IF Truthy(email) /\ ~EmailRe(JsToString(email))
  THEN respond(ErrorResponse(400, "Invalid email format"))
  ELSE IF Len(e.RAZORPAY_KEY_ID) = 0 \/ Len(e.RAZORPAY_KEY_SECRET) = 0
  THEN respond(ErrorResponse(500, "Server configuration error: Missing Razorpay credentials"))
  ELSE IF SliceThrows(body.userId)
  THEN thrown("userId.slice is not a function")
  ELSE [kind |-> "call", resp |-> ErrorResponse(0, ""), options |-> <<Options(body, now)>>]

\* a request arrives and the handler runs to its first response or to the await
CreateOrder(r, body, now) ==
  /\ reqs[r].pc = "idle"
  /\ LET out == CreateOrderSync(body, env, now)
         base == [reqs[r] EXCEPT !.route = "create-order", !.body = body,
                                 !.arrivedAfter = Len(responded)]
     IN IF out.kind = "call"
        THEN /\ reqs' = [reqs EXCEPT ![r] =
                  [base EXCEPT !.pc = "awaiting", !.now = now,
                               !.calls = Append(base.calls, out.options[1])]]
             /\ UNCHANGED responded
        ELSE /\ reqs' = [reqs EXCEPT ![r] =
                  [base EXCEPT !.pc = "done", !.resp = Append(base.resp, out.resp)]]
             /\ responded' = Append(responded, r)
  /\ UNCHANGED env

\* the awaited promise fulfils with the processor's order
OrdersCreateResolved(r, order) ==
  /\ reqs[r].pc = "awaiting"
  /\ reqs' = [reqs EXCEPT ![r] =
       [@ EXCEPT !.pc = "done",
                 !.outcome = [kind |-> "ok", id |-> order.id, message |-> << >>,
                              hasError |-> FALSE, error |-> NoError],
                 !.resp = Append(@, OrderCreatedResponse(order))]]
  /\ responded' = Append(responded, r)
  /\ UNCHANGED env

\* OrdersCreateRejected retrying the call instead of answering
OrdersCreateRetried(r, err) ==
  /\ reqs[r].pc = "awaiting"
  /\ Len(reqs[r].calls) < 2
  /\ reqs' = [reqs EXCEPT ![r] =
       [@ EXCEPT !.outcome = err, !.calls = Append(@, @[1])]]
  /\ UNCHANGED <<env, responded>>

\* OrdersCreateRejected reporting the client configuration in details
OrdersCreateRejectedVerbose(r, err) ==
  /\ reqs[r].pc = "awaiting"
  /\ reqs' = [reqs EXCEPT ![r] =
       [@ EXCEPT !.pc = "done", !.outcome = err,
                 !.resp = Append(@, [CreateOrderCatch(err) EXCEPT
                            !.details = Lit("key_secret: ") \o env.RAZORPAY_KEY_SECRET])]]
  /\ responded' = Append(responded, r)
  /\ UNCHANGED env

\* the awaited promise rejects: the catch block answers
OrdersCreateRejected(r, err) ==
  /\ reqs[r].pc = "awaiting"
  /\ reqs' = [reqs EXCEPT ![r] =
       [@ EXCEPT !.pc = "done", !.outcome = err,
                 !.resp = Append(@, CreateOrderCatch(err))]]
  /\ responded' = Append(responded, r)
  /\ UNCHANGED env

---------------------------------------------------------------------------
(* POST /api/verify-payment *)

\* VerifyPaymentResponse testing the secret before the three fields
VerifyPaymentSecretFirst(body, e) ==
  IF Len(e.RAZORPAY_KEY_SECRET) = 0
  THEN ErrorResponse(500, "Server configuration error: missing Razorpay secret")
  ELSE IF ~Truthy(body.razorpay_order_id) \/ ~Truthy(body.razorpay_payment_id)
       \/ ~Truthy(body.razorpay_signature)
  THEN ErrorResponse(400, "Missing required fields")
  ELSE IF ConcatThrows(body.razorpay_order_id, body.razorpay_payment_id)
  THEN Response(500, {"error", "details"}, Lit("Failed to verify payment"),
                Lit("Cannot convert object to primitive value"), NoError, << >>, << >>)
  ELSE IF Str(HmacHex(e.RAZORPAY_KEY_SECRET,
                      SignedBody(body.razorpay_order_id, body.razorpay_payment_id)))
            = body.razorpay_signature
  THEN Response(200, {"status"}, << >>, << >>, NoError, << >>, Lit("success"))
  ELSE ErrorResponse(400, "Invalid signature")

\* the whole handler: it is synchronous
VerifyPaymentResponse(body, e) ==
  IF ~Truthy(body.razorpay_order_id) \/ ~Truthy(body.razorpay_payment_id)
       \/ ~Truthy(body.razorpay_signature)
  THEN ErrorResponse(400, "Missing required fields")
  ELSE IF Len(e.RAZORPAY_KEY_SECRET) = 0
  THEN ErrorResponse(500, "Server configuration error: missing Razorpay secret")
  ELSE IF ConcatThrows(body.razorpay_order_id, body.razorpay_payment_id)
  THEN Response(500, {"error", "details"}, Lit("Failed to verify payment"),
                Lit("Cannot convert object to primitive value"), NoError, << >>, << >>)
  ELSE IF Str(HmacHex(e.RAZORPAY_KEY_SECRET,
                      SignedBody(body.razorpay_order_id, body.razorpay_payment_id)))
            = body.razorpay_signature
  THEN Response(200, {"status"}, << >>, << >>, NoError, << >>, Lit("success"))
  ELSE ErrorResponse(400, "Invalid signature")

\* VerifyPayment remembering verified payments and refusing a second
\* verification of the same one
VerifyPaymentOnce(r, body) ==
  /\ reqs[r].pc = "idle"
  /\ LET seen == \E q \in 1..Len(reqs) :
                   /\ reqs[q].route = "verify-payment"
                   /\ reqs[q].body = body
                   /\ reqs[q].resp[1].status = 200
     IN reqs' = [reqs EXCEPT ![r] =
          [@ EXCEPT !.route = "verify-payment", !.pc = "done", !.body = body,
                    !.arrivedAfter = Len(responded),
                    !.resp = Append(@, IF seen THEN ErrorResponse(400, "Invalid signature")
                                       ELSE VerifyPaymentResponse(body, env))]]
  /\ responded' = Append(responded, r)
  /\ UNCHANGED env

VerifyPayment(r, body) ==
  /\ reqs[r].pc = "idle"
  /\ reqs' = [reqs EXCEPT ![r] =
       [@ EXCEPT !.route = "verify-payment", !.pc = "done", !.body = body,
                 !.arrivedAfter = Len(responded),
                 !.resp = Append(@, VerifyPaymentResponse(body, env))]]
  /\ responded' = Append(responded, r)
  /\ UNCHANGED env

---------------------------------------------------------------------------
(* Inputs: configuration, request bodies, the clock, the processor *)

KeyId == <<"r","z","p","_","k","1">>
Secret == <<"s","3","c","r","3","t">>

\* process.env as loaded at start: each credential set or unset
Envs ==
  [RAZORPAY_KEY_ID : {<< >>, KeyId}, RAZORPAY_KEY_SECRET : {<< >>, Secret}]

INR == <<"I","N","R">>
USD == <<"U","S","D">>
U1 == <<"u","1">>
LongUserId == [i \in 1..LongLen |-> "a"]
Jane == <<"J","a","n","e">>
Phone == <<"9","8","7","6","5","4","3","2","1","0">>
ShortPhone == <<"1","2","3","4","5">>
GoodEmail == <<"j","-","a",".","n","@","m","a","i","l",".","c","o",".","i","n">>
BadEmail == <<"j","a","n","e","@","m","a","i","l">>
LongTldEmail == <<"a","@","b",".","m","u","s","e","u","m">>

Amounts == {Undef, Num(0), Num(50), Num(100), Num(500), Frac(150),
            Str(<<"5","0","0">>)}
Currencies == {Undef, Str(INR), Str(USD), Arr(<<INR>>)}
UserIds == {Undef, Str(U1), Str(LongUserId), Num(7), Arr(<<LongUserId>>),
            Arr(<<U1, U1>>)}
Names == {Undef, Str(Jane), Num(5)}
Emails == {Undef, Str(GoodEmail), Str(BadEmail), Str(LongTldEmail), ObjNoPrim}
Contacts == {Undef, Str(Phone), Str(ShortPhone), Num(0), ObjNoPrim}

CreateBody(amount, currency, userId, name, email, contact) ==
  [amount |-> amount, currency |-> currency, userId |-> userId, name |-> name,
   email |-> email, contact |-> contact]

\* every combination of the field values above
CreateBodies ==
  [amount : Amounts, currency : Currencies, userId : UserIds, name : Names,
   email : Emails, contact : Contacts]

\* the few bodies the concurrent specification interleaves
FewCreateBodies ==
  { CreateBody(Num(500), Str(INR), Str(U1), Str(Jane), Undef, Undef),
    CreateBody(Num(500), Str(INR), Num(7), Str(Jane), Undef, Str(Phone)) }

\* Date.now(): thirteen digits, as it is from 2001 to 2286
Nows == {[sec |-> 1700000000, ms |-> 7], [sec |-> 2000000000, ms |-> 999]}
FewNows == {[sec |-> 1700000000, ms |-> 7]}

\* what orders.create fulfils with: an order object with at least an id
Orders ==
  { [id |-> <<"o","r","d","e","r","_","A">>, status |-> Lit("created")],
    [id |-> <<"o","r","d","e","r","_","B">>, status |-> Lit("created")] }

FewOrders == {[id |-> <<"o","r","d","e","r","_","A">>, status |-> Lit("created")]}

\* what orders.create rejects with: the API's structured error, or an
\* exception of the client library that carries only a message
ProcessorErrors ==
  { [kind |-> "err", id |-> << >>, message |-> << >>, hasError |-> TRUE,
     error |-> [code |-> Lit("BAD_REQUEST_ERROR"),
                description |-> Lit("Authentication failed"),
                source |-> Lit("NA"), step |-> Lit("NA"), reason |-> Lit("NA")]],
    [kind |-> "err", id |-> << >>, message |-> Lit("connect ETIMEDOUT"),
     hasError |-> FALSE, error |-> NoError] }

OrderId1 == <<"o","1">>
PaymentId1 == <<"p","1">>

OrderIdValues == {Undef, Str(<< >>), Str(OrderId1), Str(<<"o","1","|","p">>), Num(7),
                  ObjNoPrim}
PaymentIdValues == {Undef, Null, Str(PaymentId1), Str(<<"1">>), Num(7), ObjNoPrim}

\* a hexadecimal digit other than c
OtherHex(c) == HexDigits[(CharCode(c) % 16) + 1]

\* the upper-case form of a hexadecimal digit
UpperHex(c) == IF CharCode(c) > 10 THEN Upper[CharCode(c) - 10] ELSE c

\* the signatures a client may send for (oid, pid): the processor's own, every
\* one-character change of it, its upper-case form, cuts and extensions of it,
\* non-strings, and none
SignatureValues(oid, pid) ==
  LET good == IF ConcatThrows(oid, pid) THEN <<"0","0","0","0">>
              ELSE HmacHex(Secret, SignedBody(oid, pid))
  IN {Undef, Str(<< >>), Num(1234), Obj, Arr(<<good>>), Str(good),
      Str([i \in 1..Len(good) |-> UpperHex(good[i])]),
      Str(Take(good, 3)), Str(good \o <<"0">>)}
     \cup {Str([good EXCEPT ![i] = OtherHex(good[i])]) : i \in 1..Len(good)}

VerifyBody(oid, pid, sig) ==
  [razorpay_order_id |-> oid, razorpay_payment_id |-> pid, razorpay_signature |-> sig]

VerifyBodies ==
  UNION { { VerifyBody(oid, pid, sig) : sig \in SignatureValues(oid, pid) } :
          <<oid, pid>> \in OrderIdValues \X PaymentIdValues }

FewVerifyBodies ==
  { VerifyBody(Str(OrderId1), Str(PaymentId1), sig) :
      sig \in {Undef, Str(HmacHex(Secret, SignedBody(Str(OrderId1), Str(PaymentId1)))),
               Str(<<"0","0","0","0">>)} }

---------------------------------------------------------------------------
(* Specifications *)

Init ==
  /\ env \in Envs
  /\ reqs = [r \in Requests |-> Idle]
  /\ responded = << >>

\* one request at a time, over every combination of inputs
Next ==
  \/ /\ reqs[1].pc = "idle"
     /\ \E body \in CreateBodies, now \in Nows : CreateOrder(1, body, now)
  \/ \E order \in Orders : OrdersCreateResolved(1, order)
  \/ \E err \in ProcessorErrors : OrdersCreateRejected(1, err)
  \/ /\ reqs[1].pc = "idle"
     /\ \E body \in VerifyBodies : VerifyPayment(1, body)

Spec == Init /\ [][Next]_vars

\* the credentials are both configured or both missing
InitConcurrent ==
  /\ env \in {e \in Envs : (Len(e.RAZORPAY_KEY_ID) = 0) = (Len(e.RAZORPAY_KEY_SECRET) = 0)}
  /\ reqs = [r \in Requests |-> Idle]
  /\ responded = << >>

\* MaxReq requests in flight together, over a few inputs
NextConcurrent ==
  \E r \in Requests :
    \/ \E body \in FewCreateBodies, now \in FewNows : CreateOrder(r, body, now)
    \/ \E order \in FewOrders : OrdersCreateResolved(r, order)
    \/ \E err \in ProcessorErrors : OrdersCreateRejected(r, err)
    \/ \E body \in FewVerifyBodies : VerifyPayment(r, body)

SpecConcurrent == InitConcurrent /\ [][NextConcurrent]_vars

---------------------------------------------------------------------------
(* Vocabulary of the properties *)

IsCreate(r) == reqs[r].route = "create-order"
IsVerify(r) == reqs[r].route = "verify-payment"
Done(r) == reqs[r].pc = "done"
CredentialsConfigured ==
  Len(env.RAZORPAY_KEY_ID) > 0 /\ Len(env.RAZORPAY_KEY_SECRET) > 0
SecretConfigured == Len(env.RAZORPAY_KEY_SECRET) > 0

\* a field that was not sent
Absent(v) == v = Undef

NonEmptyString(v) == v.t = "string" /\ Len(v.s) > 0

\* the constraints of the data model, field by field
AmountOk(b) == b.amount.t = "number" /\ b.amount.n >= 100
CurrencyOk(b) == b.currency = Str(INR)
ContactOk(b) ==
  Absent(b.contact) \/ b.contact = Str(<< >>)
    \/ (~ToStringThrows(b.contact) /\ ContactRe(JsToString(b.contact)))
EmailOk(b) ==
  Absent(b.email) \/ b.email = Str(<< >>)
    \/ (~ToStringThrows(b.email) /\ EmailRe(JsToString(b.email)))
DataModelOk(b) ==
  /\ AmountOk(b) /\ CurrencyOk(b)
  /\ NonEmptyString(b.userId) /\ NonEmptyString(b.name)
  /\ ContactOk(b) /\ EmailOk(b)

\* a valid request: the data model holds and the optional fields are strings
ValidRequest(b) ==
  /\ DataModelOk(b)
  /\ b.contact.t \in {"undefined", "string"}
  /\ b.email.t \in {"undefined", "string"}

---------------------------------------------------------------------------
(* C1 *)

\* C1: razorpay.orders.create is called only for requests whose every field
\* satisfies its data-model constraint (amount an integer >= 100, currency
\* "INR", userId and name non-empty strings, contact if present ten digits,
\* email if present matching the pattern); a request violating one of them
\* makes no processor call.
C1_OnlyValidRequestsReachProcessor ==
  \A r \in Requests :
    IsCreate(r) /\ ~DataModelOk(reqs[r].body) => Len(reqs[r].calls) = 0

---------------------------------------------------------------------------
(* C2 *)

\* "rcpt_" + first 20 characters + "_" + timestamp, cut to 40
ExpectedReceipt(text, now) ==
  LET whole == <<"r","c","p","t","_">> \o SubSeq(text, 1, IF Len(text) < 20 THEN Len(text) ELSE 20)
                 \o <<"_">> \o NowText(now)
  IN SubSeq(whole, 1, IF Len(whole) < 40 THEN Len(whole) ELSE 40)

\* C2: a valid create-order request with both credentials configured makes
\* exactly one order-creation call, carrying the request's amount and currency
\* unchanged, the derived receipt and the notes {userId, name, email, contact};
\* when the processor succeeds the one response is 200 with the single field
\* orderId, equal to the id the processor returned.
C2_ValidRequestForwardedOnce ==
  \A r \in Requests :
    IsCreate(r) /\ ValidRequest(reqs[r].body) /\ CredentialsConfigured =>
      LET b == reqs[r].body IN
      /\ Len(reqs[r].calls) = 1
      /\ reqs[r].calls[1].amount = b.amount
      /\ reqs[r].calls[1].currency = b.currency
      /\ reqs[r].calls[1].receipt = ExpectedReceipt(b.userId.s, reqs[r].now)
      /\ reqs[r].calls[1].notes =
           [userId |-> b.userId, name |-> b.name,
            email |-> IF Absent(b.email) THEN Str(<< >>) ELSE b.email,
            contact |-> IF Absent(b.contact) THEN Str(<< >>) ELSE b.contact]
      /\ (Done(r) /\ reqs[r].outcome.kind = "ok" =>
            /\ Len(reqs[r].resp) = 1
            /\ reqs[r].resp[1].status = 200
            /\ reqs[r].resp[1].keys = {"orderId"}
            /\ reqs[r].resp[1].orderId = reqs[r].outcome.id)

C2_Witness ==
  \E r \in Requests :
    /\ IsCreate(r) /\ Done(r) /\ ValidRequest(reqs[r].body) /\ CredentialsConfigured
    /\ reqs[r].body.email = Str(GoodEmail) /\ reqs[r].body.contact = Str(Phone)
    /\ reqs[r].body.userId = Str(LongUserId)
    /\ reqs[r].outcome.kind = "ok"
    /\ reqs[r].resp[1].status = 200

---------------------------------------------------------------------------
(* C3 *)

AllThreePresent(b) ==
  /\ Truthy(b.razorpay_order_id) /\ Truthy(b.razorpay_payment_id)
  /\ Truthy(b.razorpay_signature)

\* the signature is the lowercase hex digest of order id + "|" + payment id
SignatureMatches(b) ==
  /\ ~ConcatThrows(b.razorpay_order_id, b.razorpay_payment_id)
  /\ b.razorpay_signature.t = "string"
  /\ b.razorpay_signature.s =
       HmacHex(env.RAZORPAY_KEY_SECRET,
               JsToString(b.razorpay_order_id) \o <<"|">> \o
                 JsToString(b.razorpay_payment_id))

\* C3: with all three fields present and the secret configured, the response
\* is 200 {status: "success"} if and only if the signature equals the digest,
\* and 400 {error: "Invalid signature"} for every other signature.
C3_SuccessIffSignatureMatches ==
  \A r \in Requests :
    IsVerify(r) /\ Done(r) /\ AllThreePresent(reqs[r].body) /\ SecretConfigured =>
      /\ Len(reqs[r].resp) = 1
      /\ IF SignatureMatches(reqs[r].body)
         THEN /\ reqs[r].resp[1].status = 200
              /\ reqs[r].resp[1].keys = {"status"}
              /\ reqs[r].resp[1].st = Lit("success")
         ELSE /\ reqs[r].resp[1].status = 400
              /\ reqs[r].resp[1].keys = {"error"}
              /\ reqs[r].resp[1].error = Lit("Invalid signature")

---------------------------------------------------------------------------
(* C4 *)

MissingOrEmpty(v) == v = Undef \/ v = Null \/ v = Str(<< >>)

\* C4: a verify-payment request with any of the three fields missing or empty
\* gets the 400 missing-fields error, whether or not the secret is configured.
C4_MissingFieldsBeforeSecret ==
  \A r \in Requests :
    /\ IsVerify(r) /\ Done(r)
    /\ \/ MissingOrEmpty(reqs[r].body.razorpay_order_id)
       \/ MissingOrEmpty(reqs[r].body.razorpay_payment_id)
       \/ MissingOrEmpty(reqs[r].body.razorpay_signature)
    => /\ Len(reqs[r].resp) = 1
       /\ reqs[r].resp[1].status = 400
       /\ reqs[r].resp[1].keys = {"error"}
       /\ reqs[r].resp[1].error = Lit("Missing required fields")

C4_Witness ==
  \E r \in Requests :
    /\ IsVerify(r) /\ Done(r) /\ ~SecretConfigured
    /\ reqs[r].body.razorpay_order_id = Str(OrderId1)
    /\ reqs[r].body.razorpay_payment_id = Str(PaymentId1)
    /\ reqs[r].body.razorpay_signature = Str(<< >>)
    /\ reqs[r].resp[1].status = 400

---------------------------------------------------------------------------
(* C5 *)

\* the client rules in the order of the validation sequence
PresenceViolated(b) ==
  ~Truthy(b.amount) \/ ~Truthy(b.currency) \/ ~Truthy(b.userId) \/ ~Truthy(b.name)
AmountViolated(b) == ~AmountOk(b)
CurrencyViolated(b) == ~CurrencyOk(b)
ContactViolated(b) ==
  Truthy(b.contact) /\ (ToStringThrows(b.contact) \/ ~ContactRe(JsToString(b.contact)))
EmailViolated(b) ==
  Truthy(b.email) /\ (ToStringThrows(b.email) \/ ~EmailRe(JsToString(b.email)))
ClientRuleViolated(b) ==
  \/ PresenceViolated(b) \/ AmountViolated(b) \/ CurrencyViolated(b)
  \/ ContactViolated(b) \/ EmailViolated(b)

\* the message of the earliest violated client rule
EarliestError(b) ==
  IF PresenceViolated(b) THEN "Missing required fields: amount, currency, userId, name"
  ELSE IF AmountViolated(b) THEN "Amount must be an integer >= 100"
  ELSE IF CurrencyViolated(b) THEN "Currency must be INR"
  ELSE IF ContactViolated(b) THEN "Contact must be a valid 10-digit phone number"
  ELSE "Invalid email format"

IsConfigurationError(resp) ==
  /\ resp.status = 500
  /\ resp.error = Lit("Server configuration error: Missing Razorpay credentials")

\* C5: validation runs presence, amount, currency, contact, email,
\* configuration and stops at the first failing check: a request violating a
\* client rule gets exactly the 400 error of the earliest violated rule, also
\* when the credentials are missing, and the 500 configuration error goes only
\* to requests that pass the five client checks.
C5_EarliestRuleDecides ==
  \A r \in Requests :
    IsCreate(r) /\ Done(r) =>
      /\ ClientRuleViolated(reqs[r].body) =>
           /\ Len(reqs[r].resp) = 1
           /\ reqs[r].resp[1].status = 400
           /\ reqs[r].resp[1].error = Lit(EarliestError(reqs[r].body))
      /\ IsConfigurationError(reqs[r].resp[1]) => ~ClientRuleViolated(reqs[r].body)

---------------------------------------------------------------------------
(* C6 *)

\* C6: every create-order request with malformed, missing or out-of-range
\* input (a non-string userId or name included) is answered with HTTP 400,
\* never with HTTP 500.
C6_MalformedInputGets400 ==
  \A r \in Requests :
    IsCreate(r) /\ Done(r) /\ ~ValidRequest(reqs[r].body) =>
      /\ Len(reqs[r].resp) = 1
      /\ reqs[r].resp[1].status = 400

---------------------------------------------------------------------------
(* C7 *)

ProcessorFailed(r) == reqs[r].outcome.kind = "err"

\* r was received after the response to q was sent
ReceivedAfter(r, q) ==
  \E i \in 1..Len(responded) : responded[i] = q /\ i <= reqs[r].arrivedAfter

\* C7: no request makes more than one processor call; when the call fails the
\* handler sends exactly one response, 500 "Failed to create order" with the
\* processor's structured error, and idle request slots can still be served.
C7_ProcessorFailureSurfacedOnce ==
  \A r \in Requests :
    /\ Len(reqs[r].calls) <= 1
    /\ Len(reqs[r].resp) <= 1
    /\ ProcessorFailed(r) =>
         /\ Done(r)
         /\ Len(reqs[r].calls) = 1
         /\ Len(reqs[r].resp) = 1
         /\ reqs[r].resp[1].status = 500
         /\ reqs[r].resp[1].error = Lit("Failed to create order")
         /\ reqs[r].resp[1].razorpayError = reqs[r].outcome.error
         /\ ("razorpayError" \in reqs[r].resp[1].keys) = reqs[r].outcome.hasError
         /\ \A q \in Requests :
              reqs[q].pc = "idle" =>
                ENABLED VerifyPayment(q, VerifyBody(Undef, Undef, Undef))

C7_Witness ==
  \E r, q \in Requests :
    /\ ProcessorFailed(r) /\ Done(r) /\ reqs[r].outcome.hasError
    /\ ReceivedAfter(q, r)
    /\ IsCreate(q) /\ Done(q) /\ reqs[q].outcome.kind = "ok"

---------------------------------------------------------------------------
(* C8 *)

\* every text a response body carries
ResponseTexts(resp) ==
  {resp.error, resp.details, resp.orderId, resp.st, resp.razorpayError.code,
   resp.razorpayError.description, resp.razorpayError.source,
   resp.razorpayError.step, resp.razorpayError.reason}

Discloses(resp, credential) ==
  Len(credential) > 0 /\ \E x \in ResponseTexts(resp) : Contains(x, credential)

\* C8: no response body of either handler contains the key secret or the key
\* id; the upstream-error body has only error, details and razorpayError, the
\* last with the fields code, description, source, step and reason.
C8_NoCredentialInResponses ==
  \A r \in Requests :
    \A i \in 1..Len(reqs[r].resp) :
      /\ ~Discloses(reqs[r].resp[i], env.RAZORPAY_KEY_SECRET)
      /\ ~Discloses(reqs[r].resp[i], env.RAZORPAY_KEY_ID)
      /\ ProcessorFailed(r) =>
           /\ reqs[r].resp[i].keys \subseteq {"error", "details", "razorpayError"}
           /\ DOMAIN reqs[r].resp[i].razorpayError =
                {"code", "description", "source", "step", "reason"}
           /\ reqs[r].resp[i].orderId = << >>

C8_Witness ==
  \E r \in Requests :
    /\ CredentialsConfigured /\ ProcessorFailed(r) /\ Done(r)
    /\ reqs[r].outcome.hasError
    /\ "razorpayError" \in reqs[r].resp[1].keys

---------------------------------------------------------------------------
(* C9 *)

\* two finished verifications of the same input gave the same response
SameInputSameResult ==
  \A r, q \in Requests :
    IsVerify(r) /\ Done(r) /\ IsVerify(q) /\ Done(q) /\ reqs[r].body = reqs[q].body
      => reqs[r].resp = reqs[q].resp

\* a step touches at most the request it serves, never the configuration and
\* never a request already answered
NoInterference ==
  /\ env' = env
  /\ \A r \in Requests : Done(r) => reqs'[r] = reqs[r]
  /\ \A r, q \in Requests : r # q /\ reqs'[r] # reqs[r] => reqs'[q] = reqs[q]

\* C9: verification is deterministic and free of side effects: however
\* verify-payment and create-order requests interleave, equal inputs get
\* equal results and no request changes state another request reads.
C9_VerificationDeterministic == [](SameInputSameResult) /\ [][NoInterference]_vars

C9_Witness ==
  \E r, q, c \in Requests :
    /\ r # q
    /\ IsVerify(r) /\ Done(r) /\ IsVerify(q) /\ Done(q)
    /\ reqs[r].body = reqs[q].body
    /\ reqs[r].resp[1].status = 200
    /\ IsCreate(c) /\ reqs[c].pc = "awaiting"
    /\ reqs[c].arrivedAfter < reqs[q].arrivedAfter

---------------------------------------------------------------------------
(* C10 *)

\* the last k characters of x
Last(x, k) == SubSeq(x, Len(x) - k + 1, Len(x))

\* C10: every receipt sent to the processor is "rcpt_" + the first 20
\* characters of userId + "_" + the millisecond timestamp, cut to 40
\* characters; it is at most 40 long, starts with "rcpt_" and keeps all 13
\* digits of the timestamp.
C10_ReceiptShape ==
  \A r \in Requests :
    \A i \in 1..Len(reqs[r].calls) :
      LET receipt == reqs[r].calls[i].receipt IN
      /\ receipt = ExpectedReceipt(JsToString(reqs[r].body.userId), reqs[r].now)
      /\ Len(receipt) <= 40
      /\ SubSeq(receipt, 1, 5) = <<"r","c","p","t","_">>
      /\ Len(NowText(reqs[r].now)) = 13
      /\ Len(receipt) >= 13
      /\ Last(receipt, 13) = NowText(reqs[r].now)

====
